---- MODULE Spec2Model ----
(***************************************************************************)
(* Technical-analysis engine of cedears-ai-analyzer:                       *)
(*   src/src/data_processor/technical_indicators.py  (TechnicalIndicators) *)
(*   src/src/data_processor/price_analyzer.py        (PriceAnalyzer)       *)
(* and the workflow around it, src/main.py (main):                          *)
(*   src/src/utils/ollama_setup.py                   (ensure_ollama_ready) *)
(*   src/src/data_collector/scrapers/portfolio_personal_client.py          *)
(*   src/src/ai_analyzer/recommendation_engine.py    (RecommendationEngine)*)
(*   src/src/ai_analyzer/ollama_client.py            (OllamaClient)        *)
(*   src/src/report_generator/report_builder.py      (ReportBuilder)       *)
(*                                                                         *)
(* Numbers.  A close is an integer count of 1/Unit price units, so every   *)
(* close is a dyadic rational and is exactly representable as a float64.   *)
(* A float is modelled by a record [k, n, d]: k = "num" is the rational    *)
(* n/d in lowest terms with d > 0, k = "inf" is an infinity of sign n,     *)
(* k = "nan" is not-a-number.  Arithmetic follows IEEE-754 for the special *)
(* values (x/0, 0/0, x/inf, inf-inf) and is exact on the rationals;        *)
(* round(x, k) rounds half to even.  None is Python's None.                *)
(***************************************************************************)
EXTENDS Integers, Sequences, FiniteSets, TLC

VARIABLES
    price_data,   \* the 'close' column of the DataFrame handed to the engine
    volume_data,  \* its 'volume' column: [present, values]
    ret,          \* the last call made on the engine and what it returned
    pc,           \* main(): where step 2 of the workflow stands
    analyzer,     \* main(): the configuration held by its PriceAnalyzer
    ticker_idx,   \* main(): position in `cedears` of the ticker of the loop
    all_analyses, \* main(): the snapshots collected so far
    all_news,     \* main(): the news collected so far, by ticker
    attempts,     \* how the loop body ended for each ticker so far
    now,          \* the wall clock, in instants read so far
    calls,        \* the analyze() calls made on one analyzer, in order
    analysis_idx, \* main(): position in all_analyses of the step-3 loop
    recommendations, \* main(): the recommendations collected so far
    rec_log,      \* how analyze_cedear ended for each analysis so far
    report,       \* ReportBuilder.build_report: the context it renders
    summary,      \* main(): the counts of the final summary
    ollama,       \* the Ollama installation and the services at each URL
    setup,        \* ensure_ollama_ready: arguments, position, calls, result
    client,       \* PortfolioPersonalClient: api_secret and session fields
    requests      \* the data requests the client has made, in order

engine_vars == <<price_data, volume_data, ret>>
main_vars == <<pc, analyzer, ticker_idx, all_analyses, all_news, attempts>>
repeat_vars == <<now, calls>>
rec_vars == <<analysis_idx, recommendations, rec_log, report, summary>>
setup_vars == <<ollama, setup>>
client_vars == <<client, requests>>
vars == <<price_data, volume_data, ret,
          pc, analyzer, ticker_idx, all_analyses, all_news, attempts,
          now, calls, analysis_idx, recommendations, rec_log, report, summary,
          ollama, setup, client, requests>>

---------------------------------------------------------------------------
(* Bounds of the model *)
MaxLen == 31          \* longest price series
MaxTurns == 1         \* changes of the day-to-day step within one series
MaxRsiPeriod == 3     \* calculate_rsi is called with period 1..MaxRsiPeriod
MaxRsiLen == 8        \* longest series calculate_rsi is called on directly
MaxMacdLen == 4       \* longest series calculate_macd is called on directly
MaxSpan == 3          \* calculate_macd is called with spans 1..MaxSpan
MaxMaLen == 4         \* longest series calculate_moving_averages is called on
MaxMaPeriod == 3      \* ... with windows drawn from 1..MaxMaPeriod
MaxVolumeLen == 7     \* longest series _analyze_volume is called on directly
MaxTickers == 3       \* tickers in the list the workflow analyses
MaxCalls == 2         \* analyze() calls made in a row on one analyzer
MaxRecs == 2          \* analyses handed to step 3 of the workflow
MaxClock == 3         \* instants the clock of the API client runs through
MaxRequests == 2      \* data requests made through one API client

Unit == 2 * 2 * 2                 \* closes are multiples of 1/8
StartCloses == {80}               \* first close of a series: 10.00
Steps == {-1, 0, 1}               \* day-to-day change of the close, in 1/8
\* volume of a record whose close moved by `step`
VolumeOf(step) == 10000 * (1 + (IF step = 0 THEN 0 ELSE 1))
ScenarioVolume == 15 * 1000

(* The 20-point scenario of the specification, section 8 *)
ScenarioCloses ==
    <<100, 102, 101, 105, 103, 108, 107, 110, 112, 109,
      111, 115, 113, 116, 118, 117, 120, 119, 122, 125>>
Scenario == [i \in 1..Len(ScenarioCloses) |-> ScenarioCloses[i] * Unit]

(* A full look-back history: a base price, a linear trend and a bounded    *)
(* deterministic noise, one record per day of the look-back                *)
LOOKBACK_DAYS == 60
Trends == {-4, 0, 1, 4}
Noise(i) == ((i * i) % 7) - 3
LookbackSeries(trend) ==
    [i \in 1..LOOKBACK_DAYS |-> 100 * Unit + trend * (i - 1) + Noise(i)]

(* The moving-average example of the specification, section 8 *)
ExampleCloses == <<10, 20, 30>>
Example == [i \in 1..Len(ExampleCloses) |-> ExampleCloses[i] * Unit]

(* A history in which one record carries a negative price: the client copies *)
(* item.get('price', 0) into 'close' as the API sent it                      *)
NegativeClose == -Unit
NegativeScenario == [Scenario EXCEPT ![10] = NegativeClose]

Scenarios ==
    {Scenario, Example, NegativeScenario} \cup {LookbackSeries(t) : t \in Trends}

(* The tickers of config/cedears_list.yaml with priority high or medium *)
TickerNames == <<"AAPL", "MSFT", "GOOGL", "TSLA", "MELI">>
cedears == SubSeq(TickerNames, 1, MaxTickers)

(* What get_cedear_history hands to the loop: an empty frame (no data for  *)
(* the ticker), a 20-point history, a full look-back history               *)
Histories == {<< >>, Scenario, LookbackSeries(1)}

(* The 'analysis' section of the configuration file, as handed to           *)
(* PriceAnalyzer: nothing set; every key set to a positive value, some above *)
(* the length of a short history; a period below the documented range       *)
Configs ==
    {<< >>,
     [rsi_period |-> 25,
      macd |-> [fast |-> 5, slow |-> 35],
      moving_averages |-> {5, 25}],
     [rsi_period |-> -1]}

---------------------------------------------------------------------------
(* Floats *)
Abs(x) == IF x < 0 THEN -x ELSE x
Sign(x) == IF x < 0 THEN -1 ELSE IF x > 0 THEN 1 ELSE 0

RECURSIVE GCD(_, _)
GCD(a, b) == IF b = 0 THEN a ELSE GCD(b, a % b)

NaN == [k |-> "nan", n |-> 0, d |-> 1]
None == [k |-> "None", n |-> 0, d |-> 1]
Inf(s) == [k |-> "inf", n |-> s, d |-> 1]
\* n/d, d # 0, in lowest terms
Rat(n, d) ==
    LET g == GCD(Abs(n), Abs(d))
    IN  [k |-> "num", n |-> Sign(d) * (n \div g), d |-> Abs(d) \div g]
Int2F(i) == [k |-> "num", n |-> i, d |-> 1]

IsNum(x) == x.k = "num"

FNeg(x) == IF x.k = "num" THEN [x EXCEPT !.n = -x.n]
           ELSE IF x.k = "inf" THEN Inf(-x.n) ELSE x

FAdd(a, b) ==
    IF a.k = "nan" \/ b.k = "nan" THEN NaN
    ELSE IF a.k = "inf" /\ b.k = "inf" THEN (IF a.n = b.n THEN a ELSE NaN)
    ELSE IF a.k = "inf" THEN a
    ELSE IF b.k = "inf" THEN b
    ELSE LET g == GCD(a.d, b.d)
             l == (a.d \div g) * b.d
         IN  Rat(a.n * (l \div a.d) + b.n * (l \div b.d), l)

FSub(a, b) == FAdd(a, FNeg(b))

FMul(a, b) ==
    IF a.k = "nan" \/ b.k = "nan" THEN NaN
    ELSE IF a.k = "inf" \/ b.k = "inf"
         THEN (IF a.n = 0 \/ b.n = 0 THEN NaN ELSE Inf(Sign(a.n) * Sign(b.n)))
    ELSE LET g1 == GCD(Abs(a.n), b.d)
             g2 == GCD(Abs(b.n), a.d)
         IN  Rat((a.n \div g1) * (b.n \div g2), (a.d \div g2) * (b.d \div g1))

\* float division: x/0 is an infinity, 0/0 and inf/inf are nan, x/inf is 0
FDiv(a, b) ==
    IF a.k = "nan" \/ b.k = "nan" THEN NaN
    ELSE IF a.k = "inf" THEN (IF b.k = "inf" THEN NaN
                              ELSE Inf(a.n * (IF b.n < 0 THEN -1 ELSE 1)))
    ELSE IF b.k = "inf" THEN Int2F(0)
    ELSE IF b.n = 0 THEN (IF a.n = 0 THEN NaN ELSE Inf(Sign(a.n)))
    ELSE LET g1 == GCD(Abs(a.n), Abs(b.n))
             g2 == GCD(a.d, b.d)
         IN  Rat((a.n \div g1) * (b.d \div g2), (a.d \div g2) * (b.n \div g1))

FAbs(x) == IF x.k = "nan" THEN x
           ELSE IF x.k = "inf" THEN Inf(1) ELSE [x EXCEPT !.n = Abs(x.n)]

\* a > b on floats; any comparison with nan is False
FGt(a, b) ==
    IF a.k = "nan" \/ b.k = "nan" THEN FALSE
    ELSE IF a.k = "inf" THEN a.n = 1 /\ ~(b.k = "inf" /\ b.n = 1)
    ELSE IF b.k = "inf" THEN b.n = -1
    ELSE a.n * b.d > b.n * a.d
FLt(a, b) == FGt(b, a)

RECURSIVE Pow10(_)
Pow10(k) == IF k = 0 THEN 1 ELSE 10 * Pow10(k - 1)

\* long division of r/d continued for k decimal digits: <<quotient, remainder>>
RECURSIVE LongDiv(_, _, _, _)
LongDiv(q, r, d, k) ==
    IF k = 0 THEN <<q, r>>
    ELSE LongDiv(10 * q + ((10 * r) \div d), (10 * r) % d, d, k - 1)

\* truncation toward zero in place of rounding
RoundDec_truncating(n, d, k) ==
    Sign(n) * LongDiv(Abs(n) \div d, Abs(n) % d, d, k)[1]

\* n/d (d > 0) rounded half-to-even to k decimals, as a count of 10^-k
RoundDec(n, d, k) ==
    LET a == Abs(n)
        qr == LongDiv(a \div d, a % d, d, k)
        q == qr[1]
        r == qr[2]
        up == 2 * r > d \/ (2 * r = d /\ q % 2 = 1)
    IN  Sign(n) * (IF up THEN q + 1 ELSE q)

\* Python/numpy round(x, ndigits): nan and the infinities are returned as is
FRound(x, ndigits) ==
    IF x.k = "num" THEN Rat(RoundDec(x.n, x.d, ndigits), Pow10(ndigits)) ELSE x

\* a close (count of 1/Unit) as a float
Close(c) == Rat(c, Unit)

---------------------------------------------------------------------------
(* Integer helpers over sequences of closes (split in halves: the depth of *)
(* the evaluation stays logarithmic in the length)                         *)
RECURSIVE SumRange(_, _, _)
SumRange(s, lo, hi) ==
    IF lo > hi THEN 0
    ELSE IF lo = hi THEN s[lo]
    ELSE LET mid == (lo + hi) \div 2
         IN  SumRange(s, lo, mid) + SumRange(s, mid + 1, hi)

RECURSIVE MinRange(_, _, _)
MinRange(s, lo, hi) ==
    IF lo = hi THEN s[lo]
    ELSE LET mid == (lo + hi) \div 2
             a == MinRange(s, lo, mid)
             b == MinRange(s, mid + 1, hi)
         IN  IF b < a THEN b ELSE a

RECURSIVE MaxRange(_, _, _)
MaxRange(s, lo, hi) ==
    IF lo = hi THEN s[lo]
    ELSE LET mid == (lo + hi) \div 2
             a == MaxRange(s, lo, mid)
             b == MaxRange(s, mid + 1, hi)
         IN  IF b > a THEN b ELSE a

---------------------------------------------------------------------------
(* TechnicalIndicators.calculate_rsi *)

\* prices.diff() at position i >= 2, in 1/Unit; position 1 is nan
delta(prices, i) == prices[i] - prices[i - 1]

\* every change counted as a gain, by its size
gain_terms_absolute(prices) ==
    [i \in 1..Len(prices) |->
        IF i > 1 THEN Abs(delta(prices, i)) ELSE 0]

\* delta.where(delta > 0, 0): the leading nan fails the test and becomes 0
gain_terms(prices) ==
    [i \in 1..Len(prices) |->
        IF i > 1 /\ delta(prices, i) > 0 THEN delta(prices, i) ELSE 0]

\* the negation forgotten: losses keep their sign
loss_terms_signed(prices) ==
    [i \in 1..Len(prices) |->
        IF i > 1 /\ delta(prices, i) < 0 THEN delta(prices, i) ELSE 0]

\* -delta.where(delta < 0, 0)
loss_terms(prices) ==
    [i \in 1..Len(prices) |->
        IF i > 1 /\ delta(prices, i) < 0 THEN -delta(prices, i) ELSE 0]

\* series.rolling(window).mean() at position i of a nan-free series:
\* nan until `window` observations are in the window
rolling_mean(terms, window, i) ==
    IF i < window THEN NaN
    ELSE Rat(SumRange(terms, i - window + 1, i), window * Unit)

rsi_formula(gain, loss) ==
    LET rs == FDiv(gain, loss)
    IN  FSub(Int2F(100), FDiv(Int2F(100), FAdd(Int2F(1), rs)))

calculate_rsi(prices, period) ==
    LET g == gain_terms(prices)
        l == loss_terms(prices)
    IN  [i \in 1..Len(prices) |->
            rsi_formula(rolling_mean(g, period, i), rolling_mean(l, period, i))]

---------------------------------------------------------------------------
(* TechnicalIndicators.calculate_macd *)

RECURSIVE FPow(_, _)
FPow(x, k) == IF k = 0 THEN Int2F(1) ELSE FMul(x, FPow(x, k - 1))

\* the sum of the floats xs[1..n]
RECURSIVE FSum(_, _)
FSum(xs, n) == IF n = 0 THEN Int2F(0) ELSE FAdd(FSum(xs, n - 1), xs[n])

\* adjust=True in place of adjust=False: the weighted mean of all values so
\* far, weights (1-a)^age, normalised by the sum of the weights
ewm_mean_adjusted(xs, span) ==
    LET a == Rat(2, span + 1)
        w(age) == FPow(FSub(Int2F(1), a), age)
    IN  [t \in 1..Len(xs) |->
            FDiv(FSum([i \in 1..t |-> FMul(w(t - i), xs[i])], t),
                 FSum([i \in 1..t |-> w(t - i)], t))]

\* series.ewm(span=span, adjust=False).mean():
\* y[1] = x[1], y[i] = a*x[i] + (1-a)*y[i-1], a = 2/(span+1)
RECURSIVE ewm_mean(_, _)
ewm_mean(xs, span) ==
    IF Len(xs) <= 1 THEN xs
    ELSE LET a == Rat(2, span + 1)
             prev == ewm_mean(SubSeq(xs, 1, Len(xs) - 1), span)
         IN  Append(prev, FAdd(FMul(a, xs[Len(xs)]),
                               FMul(FSub(Int2F(1), a), prev[Len(prev)])))

\* the operands swapped
histogram_of_swapped(macd, signal_line) ==
    [i \in 1..Len(macd) |-> FSub(signal_line[i], macd[i])]

histogram_of(macd, signal_line) ==
    [i \in 1..Len(macd) |-> FSub(macd[i], signal_line[i])]

calculate_macd(prices, fast, slow, signal) ==
    LET xs == [i \in 1..Len(prices) |-> Close(prices[i])]
        ema_fast == ewm_mean(xs, fast)
        ema_slow == ewm_mean(xs, slow)
        macd == [i \in 1..Len(xs) |-> FSub(ema_fast[i], ema_slow[i])]
        signal_line == ewm_mean(macd, signal)
    IN  [macd |-> macd, signal |-> signal_line,
         histogram |-> histogram_of(macd, signal_line)]

---------------------------------------------------------------------------
(* TechnicalIndicators.calculate_moving_averages *)

\* the length test made strict: a series of exactly `period` points is refused
moving_average_strict(prices, period) ==
    IF Len(prices) > period
    THEN [i \in 1..Len(prices) |-> rolling_mean(prices, period, i)]
    ELSE <<>>

\* the series for one window: empty when the series is shorter than the window
moving_average(prices, period) ==
    IF Len(prices) >= period
    THEN [i \in 1..Len(prices) |-> rolling_mean(prices, period, i)]
    ELSE <<>>

calculate_moving_averages(prices, periods) ==
    [w \in periods |-> moving_average(prices, w)]

---------------------------------------------------------------------------
(* TechnicalIndicators.analyze_trend *)
MIN_POINTS == 20

\* sum over i of x[i] * y[i], with x = 0 .. n-1
SumXY(prices, n) == SumRange([i \in 1..n |-> (i - 1) * prices[i]], 1, n)

SumX(n) == (n * (n - 1)) \div 2
SumXX(n) == ((n - 1) * n * (2 * n - 1)) \div 6

\* np.polyfit(x, prices, 1)[0]: the least-squares slope, in price per period
polyfit_slope(prices) ==
    LET n == Len(prices)
    IN  Rat(n * SumXY(prices, n) - SumX(n) * SumRange(prices, 1, n),
            Unit * (n * SumXX(n) - SumX(n) * SumX(n)))

\* a finite float whose value the model does not track
Finite == [k |-> "finite", n |-> 0, d |-> 1]

\* np.corrcoef(x, prices)[0, 1]: covariance over the product of the standard
\* deviations; a constant series has deviation 0 and gives 0/0
corrcoef(prices) ==
    IF MinRange(prices, 1, Len(prices)) = MaxRange(prices, 1, Len(prices))
    THEN NaN ELSE Finite

SlopeThreshold == Rat(1, 10)

\* the sign of the slope decides, no dead band
trend_direction_by_sign(slope) ==
    IF FGt(slope, Int2F(0)) THEN "bullish"
    ELSE IF FLt(slope, Int2F(0)) THEN "bearish"
    ELSE "sideways"

trend_direction(slope) ==
    IF FGt(slope, SlopeThreshold) THEN "bullish"
    ELSE IF FLt(slope, FNeg(SlopeThreshold)) THEN "bearish"
    ELSE "sideways"

analyze_trend(prices) ==
    IF Len(prices) < MIN_POINTS
    THEN [trend |-> "insufficient_data", strength |-> Int2F(0)]
    ELSE LET slope == polyfit_slope(prices)
             strength == FAbs(corrcoef(prices))
         IN  [trend |-> trend_direction(slope),
              strength |-> FRound(strength, 3),
              slope |-> FRound(slope, 4)]

---------------------------------------------------------------------------
(* TechnicalIndicators.identify_support_resistance *)
MAX_WINDOW == 10
WINDOW_DIVISOR == 4

Min2(a, b) == IF a < b THEN a ELSE b

sr_window(n) == Min2(MAX_WINDOW, n \div WINDOW_DIVISOR)

\* prices.rolling(window).min() is nan before position `window`;
\* Series.min() skips the nan positions
\* the rolling minimum at the last position only (.iloc[-1] for .min())
support_level_last_window(prices, window) ==
    LET n == Len(prices)
    IN  IF window > n THEN NaN ELSE Close(MinRange(prices, n - window + 1, n))

\* the highest rolling minimum (.max() for .min())
support_level_highest_minimum(prices, window) ==
    LET n == Len(prices)
        rolling_min == [i \in window..n |-> MinRange(prices, i - window + 1, i)]
    IN  IF window > n THEN NaN
        ELSE Close(MaxRange([i \in 1..(n - window + 1) |-> rolling_min[i + window - 1]],
                            1, n - window + 1))

support_level(prices, window) ==
    LET n == Len(prices)
        rolling_min == [i \in window..n |-> MinRange(prices, i - window + 1, i)]
    IN  IF window > n THEN NaN
        ELSE Close(MinRange([i \in 1..(n - window + 1) |-> rolling_min[i + window - 1]],
                            1, n - window + 1))

resistance_level(prices, window) ==
    LET n == Len(prices)
        rolling_max == [i \in window..n |-> MaxRange(prices, i - window + 1, i)]
    IN  IF window > n THEN NaN
        ELSE Close(MaxRange([i \in 1..(n - window + 1) |-> rolling_max[i + window - 1]],
                            1, n - window + 1))

identify_support_resistance(prices) ==
    IF Len(prices) < MIN_POINTS
    THEN [support |-> None, resistance |-> None]
    ELSE LET window == sr_window(Len(prices))
         IN  [support |-> FRound(support_level(prices, window), 2),
              resistance |-> FRound(resistance_level(prices, window), 2),
              current_price |-> FRound(Close(prices[Len(prices)]), 2)]

---------------------------------------------------------------------------
(* PriceAnalyzer *)
\* off by one: a series of 19 points is analysed in full
ANALYZE_MIN_POINTS_off_by_one == 20 - 1
ANALYZE_MIN_POINTS == 20
DEFAULT_RSI_PERIOD == 14
DEFAULT_MA_PERIODS == {20, 50, 200}
Horizons == {1, 7, 30}

DEFAULT_MACD_FAST == 12
DEFAULT_MACD_SLOW == 26
DEFAULT_MACD_SIGNAL == 9

\* a Python dict is a function on the keys it holds; {} is the empty function
EmptyDict == << >>
\* dict.get(key, default)
get(d, key, default) == IF key \in DOMAIN d THEN d[key] ELSE default

\* self.config.get(...): the value of the key when the key is set, whatever
\* the value, and the default only when the key is missing
rsi_period(config) == get(config, "rsi_period", DEFAULT_RSI_PERIOD)
macd_config(config) == get(config, "macd", EmptyDict)
macd_fast(config) == get(macd_config(config), "fast", DEFAULT_MACD_FAST)
macd_slow(config) == get(macd_config(config), "slow", DEFAULT_MACD_SLOW)
macd_signal(config) == get(macd_config(config), "signal", DEFAULT_MACD_SIGNAL)
ma_periods(config) == get(config, "moving_averages", DEFAULT_MA_PERIODS)

\* pandas: Series.rolling(window) raises ValueError("window must be an integer
\* 0 or greater") for a negative window
rolling_raises(window) == window < 0
\* pandas: Series.ewm(span=span) raises ValueError("span must satisfy:
\* span >= 1") otherwise
ewm_raises(span) == span < 1

\* how a call ends: it returns a value, or an exception propagates out of it
Returned(value) == [raised |-> FALSE, value |-> value]
Raised(exc) == [raised |-> TRUE, exc |-> exc]

\* the last element of a derived series rounded to 2 decimals, None if empty
last_or_none(series) ==
    LET n == Cardinality(DOMAIN series)
    IN  IF n = 0 THEN None ELSE FRound(series[n], 2)

\* off by one: prices.iloc[-days] read in place of prices.iloc[-days-1]
_calculate_momentum_off_by_one(prices, days) ==
    LET n == Len(prices)
    IN  IF n < days + 1 THEN Int2F(0)
        ELSE LET last == Close(prices[n])
                 past == Close(prices[n - days + 1])
             IN  FRound(FMul(FDiv(FSub(last, past), past), Int2F(100)), 2)

\* None in place of 0.0 for a series too short for the horizon
_calculate_momentum_undefined(prices, days) ==
    LET n == Len(prices)
    IN  IF n < days + 1 THEN None
        ELSE LET last == Close(prices[n])
                 past == Close(prices[n - days])
             IN  FRound(FMul(FDiv(FSub(last, past), past), Int2F(100)), 2)

_calculate_momentum(prices, days) ==
    LET n == Len(prices)
    IN  IF n < days + 1 THEN Int2F(0)
        ELSE LET last == Close(prices[n])
                 past == Close(prices[n - days])
             IN  FRound(FMul(FDiv(FSub(last, past), past), Int2F(100)), 2)

\* the volume column of a DataFrame that has none
NoVolumeColumn == [present |-> FALSE, values |-> << >>]

RECENT_VOLUMES == 5

\* >= in place of >: equal means count as increasing
_analyze_volume_ties_increasing(volume) ==
    IF ~volume.present THEN [average |-> None, trend |-> "unknown"]
    ELSE LET n == Len(volume.values)
             recent == Min2(RECENT_VOLUMES, n)
             avg_volume ==
                 FDiv(Int2F(SumRange(volume.values, 1, n)), Int2F(n))
             recent_volume ==
                 FDiv(Int2F(SumRange(volume.values, n - recent + 1, n)),
                      Int2F(recent))
         IN  [average |-> FRound(avg_volume, 0),
              recent_average |-> FRound(recent_volume, 0),
              trend |-> IF ~FLt(recent_volume, avg_volume)
                        THEN "increasing" ELSE "decreasing"]

\* a missing column read as a column of zeros
_analyze_volume_missing_as_zero(volume) ==
    IF ~volume.present
    THEN [average |-> Int2F(0), recent_average |-> Int2F(0),
          trend |-> "decreasing"]
    ELSE LET n == Len(volume.values)
             recent == Min2(RECENT_VOLUMES, n)
             avg_volume ==
                 FDiv(Int2F(SumRange(volume.values, 1, n)), Int2F(n))
             recent_volume ==
                 FDiv(Int2F(SumRange(volume.values, n - recent + 1, n)),
                      Int2F(recent))
         IN  [average |-> FRound(avg_volume, 0),
              recent_average |-> FRound(recent_volume, 0),
              trend |-> IF FGt(recent_volume, avg_volume)
                        THEN "increasing" ELSE "decreasing"]

_analyze_volume(volume) ==
    IF ~volume.present THEN [average |-> None, trend |-> "unknown"]
    ELSE LET n == Len(volume.values)
             recent == Min2(RECENT_VOLUMES, n)
             avg_volume ==
                 FDiv(Int2F(SumRange(volume.values, 1, n)), Int2F(n))
             recent_volume ==
                 FDiv(Int2F(SumRange(volume.values, n - recent + 1, n)),
                      Int2F(recent))
         IN  [average |-> FRound(avg_volume, 0),
              recent_average |-> FRound(recent_volume, 0),
              trend |-> IF FGt(recent_volume, avg_volume)
                        THEN "increasing" ELSE "decreasing"]

_empty_analysis ==
    [current_price |-> None,
     rsi |-> None,
     macd |-> [value |-> None, signal |-> None, histogram |-> None],
     moving_averages |-> << >>,
     trend |-> [trend |-> "insufficient_data", strength |-> Int2F(0)],
     support_resistance |-> [support |-> None, resistance |-> None],
     momentum |-> [d \in Horizons |-> Int2F(0)],
     volume |-> [average |-> None, trend |-> "unknown"]]

\* round(macd[...].iloc[-1], 2): an EMA of finite closes is finite; its value
\* (denominator (span+1)^n) is not tracked for the series analyze() accepts
macd_last(prices) == IF Len(prices) = 0 THEN None ELSE Finite

\* a window longer than the series rejected as well
indicators_raise_on_long_window(config, prices) ==
    \/ rolling_raises(rsi_period(config))
    \/ rsi_period(config) > Len(prices)
    \/ ewm_raises(macd_fast(config))
    \/ ewm_raises(macd_slow(config))
    \/ ewm_raises(macd_signal(config))
    \/ \E w \in ma_periods(config) : Len(prices) >= w /\ rolling_raises(w)
    \/ \E w \in ma_periods(config) : w > Len(prices)

\* the indicator calls of analyze() in which pandas rejects its argument:
\* calculate_rsi (rolling), calculate_macd (ewm), calculate_moving_averages
\* (rolling, for the windows that pass its length test)
indicators_raise(config, prices) ==
    \/ rolling_raises(rsi_period(config))
    \/ ewm_raises(macd_fast(config))
    \/ ewm_raises(macd_slow(config))
    \/ ewm_raises(macd_signal(config))
    \/ \E w \in ma_periods(config) : Len(prices) >= w /\ rolling_raises(w)

analyze(config, prices, volume) ==
    IF Len(prices) = 0 \/ Len(prices) < ANALYZE_MIN_POINTS
    THEN Returned(_empty_analysis)
    ELSE IF indicators_raise(config, prices)
    THEN Raised("ValueError")
    ELSE LET rsi == calculate_rsi(prices, rsi_period(config))
             moving_averages ==
                 calculate_moving_averages(prices, ma_periods(config))
         IN  Returned(
             [current_price |-> FRound(Close(prices[Len(prices)]), 2),
              rsi |-> last_or_none(rsi),
              macd |-> [value |-> macd_last(prices),
                        signal |-> macd_last(prices),
                        histogram |-> macd_last(prices)],
              moving_averages |->
                  [w \in ma_periods(config) |->
                      last_or_none(moving_averages[w])],
              trend |-> analyze_trend(prices),
              support_resistance |-> identify_support_resistance(prices),
              momentum |-> [d \in Horizons |-> _calculate_momentum(prices, d)],
              volume |-> _analyze_volume(volume)])

---------------------------------------------------------------------------
(* State machine: a price series is assembled record by record, and the    *)
(* engine is called on the series assembled so far.  The engine keeps no   *)
(* state and its functions are pure, so a call neither enables nor changes *)
(* a later one: ret records one call and its outcome, and every (series,   *)
(* call) pair is reached from the state in which no call has been made.    *)

NoCall == [op |-> "none"]

\* number of positions at which the day-to-day step changes
Turns(s, n) ==
    Cardinality({i \in 3..n : s[i] - s[i - 1] # s[i - 1] - s[i - 2]})

\* main() before step 2: no PriceAnalyzer yet
NotConstructed == [constructed |-> FALSE]

\* pd.DataFrame(): no rows and no columns; no call made on the engine
EngineInit ==
    /\ price_data = << >>
    /\ volume_data = NoVolumeColumn
    /\ ret = NoCall

\* main() on entry to step 2
LoopInit ==
    /\ pc = "step1"
    /\ analyzer = NotConstructed
    /\ ticker_idx = 0
    /\ all_analyses = << >>
    /\ all_news = << >>
    /\ attempts = << >>

\* no analyze() call made yet
RepeatIdle ==
    /\ now = 0
    /\ calls = << >>

\* step 3 not begun: no recommendation, no report, no summary
RecIdle ==
    /\ analysis_idx = 0
    /\ recommendations = << >>
    /\ rec_log = << >>
    /\ report = [built |-> FALSE]
    /\ summary = [logged |-> FALSE]

\* api_provider is not 'ollama': ensure_ollama_ready is not called, and
\* nothing is known of an Ollama installation
SetupIdle ==
    /\ ollama = [installed |-> FALSE]
    /\ setup = [pc |-> "not_called"]

\* data_source is not 'portfolio_personal': no client is built
ClientIdle ==
    /\ client = NotConstructed
    /\ requests = << >>

Init ==
    /\ EngineInit
    /\ LoopInit
    /\ RepeatIdle
    /\ RecIdle
    /\ SetupIdle
    /\ ClientIdle

\* the closes the next record of a history may carry
NextCloses(closes) ==
    LET n == Len(closes)
        turns == Turns(closes, n)
    IN  {c \in (IF n = 0 THEN StartCloses
                ELSE {closes[n] + st : st \in Steps}) :
            /\ c > 0
            /\ turns + (IF n >= 2 /\ c - closes[n] # closes[n] - closes[n - 1]
                        THEN 1 ELSE 0) <= MaxTurns}

\* get_cedear_history: one more record of the history, oldest first (a frame
\* without a volume column stays without one); the series is complete (and
\* immutable) once the engine has been called on it
AppendRecord ==
    /\ ret.op = "none"
    /\ Len(price_data) < MaxLen
    /\ \E c \in NextCloses(price_data) :
          /\ price_data' = Append(price_data, c)
          /\ volume_data' =
                IF Len(price_data) > 0 /\ ~volume_data.present
                THEN NoVolumeColumn
                ELSE [present |-> TRUE,
                      values |-> Append(volume_data.values,
                                        VolumeOf(IF Len(price_data) = 0 THEN 0
                                                 ELSE c - price_data[Len(price_data)]))]
    /\ ret' = NoCall
    /\ UNCHANGED <<main_vars, repeat_vars, rec_vars, setup_vars, client_vars>>

\* get_cedear_history returns a whole history at once: the scenario of the
\* specification, or `days` records of base price + trend + noise
LoadScenario ==
    /\ price_data = << >>
    /\ ret.op = "none"
    /\ \E s \in Scenarios, has_volume \in BOOLEAN :
          /\ price_data' = s
          /\ volume_data' =
                IF has_volume
                THEN [present |-> TRUE,
                      values |-> [i \in 1..Len(s) |-> ScenarioVolume]]
                ELSE NoVolumeColumn
    /\ ret' = NoCall
    /\ UNCHANGED <<main_vars, repeat_vars, rec_vars, setup_vars, client_vars>>

\* PriceAnalyzer(config).analyze(ticker, price_data): the call returns a
\* snapshot or an exception propagates to the caller
Analyze ==
    /\ ret.op = "none"
    /\ \E config \in Configs :
          \E out \in {analyze(config, price_data, volume_data)} :
              ret' = IF out.raised
                     THEN [op |-> "analyze", config |-> config,
                           raised |-> TRUE, exc |-> out.exc]
                     ELSE [op |-> "analyze", config |-> config,
                           raised |-> FALSE, snapshot |-> out.value]
    /\ UNCHANGED <<price_data, volume_data>>
    /\ UNCHANGED <<main_vars, repeat_vars, rec_vars, setup_vars, client_vars>>

\* TechnicalIndicators.calculate_rsi(prices, period)
CalcRsi ==
    /\ ret.op = "none"
    /\ Len(price_data) <= MaxRsiLen
    /\ \E period \in 1..MaxRsiPeriod :
          ret' = [op |-> "calculate_rsi", period |-> period,
                  rsi |-> calculate_rsi(price_data, period)]
    /\ UNCHANGED <<price_data, volume_data>>
    /\ UNCHANGED <<main_vars, repeat_vars, rec_vars, setup_vars, client_vars>>

\* TechnicalIndicators.calculate_macd(prices, fast, slow, signal)
CalcMacd ==
    /\ ret.op = "none"
    /\ Len(price_data) <= MaxMacdLen
    /\ \E fast \in 1..MaxSpan, slow \in 1..MaxSpan, signal \in 1..MaxSpan :
          ret' = [op |-> "calculate_macd",
                  fast |-> fast, slow |-> slow, signal |-> signal,
                  out |-> calculate_macd(price_data, fast, slow, signal)]
    /\ UNCHANGED <<price_data, volume_data>>
    /\ UNCHANGED <<main_vars, repeat_vars, rec_vars, setup_vars, client_vars>>

\* TechnicalIndicators.calculate_moving_averages(prices, periods)
CalcMa ==
    /\ ret.op = "none"
    /\ Len(price_data) <= MaxMaLen
    /\ \E periods \in SUBSET (1..MaxMaPeriod) :
          /\ periods # {}
          /\ ret' = [op |-> "calculate_moving_averages", periods |-> periods,
                     ma_dict |-> calculate_moving_averages(price_data, periods)]
    /\ UNCHANGED <<price_data, volume_data>>
    /\ UNCHANGED <<main_vars, repeat_vars, rec_vars, setup_vars, client_vars>>

\* PriceAnalyzer._analyze_volume(price_data)
CalcVolume ==
    /\ ret.op = "none"
    /\ Len(price_data) <= MaxVolumeLen
    /\ Len(price_data) > 0
    /\ ret' = [op |-> "_analyze_volume", out |-> _analyze_volume(volume_data)]
    /\ UNCHANGED <<price_data, volume_data>>
    /\ UNCHANGED <<main_vars, repeat_vars, rec_vars, setup_vars, client_vars>>

Next ==
    \/ AppendRecord \/ LoadScenario
    \/ Analyze \/ CalcRsi \/ CalcMacd \/ CalcMa \/ CalcVolume

Spec == Init /\ [][Next]_vars

---------------------------------------------------------------------------
(* The workflow, step 2: main() builds one PriceAnalyzer and runs the loop  *)
(* body once per ticker of `cedears`, in list order.  attempts keeps, for   *)
(* each ticker, how its fetch and its analyze() ended.                      *)

\* what get_cedear_history does for one ticker: it raises, or returns a frame
FetchOutcomes ==
    {Raised("Exception")}
        \cup {Returned([close |-> h,
                        volume |-> [present |-> Len(h) > 0,
                                    values |-> [i \in 1..Len(h) |-> ScenarioVolume]]])
                 : h \in Histories}

\* news_scraper.get_cedear_news(ticker): a list of simulated news
get_cedear_news(ticker) == <<"news", ticker>>

\* the exception aborts the loop: break in place of continue
next_after_exception_break(i) == Len(cedears) + 1

\* except Exception: log and continue with the next ticker
next_after_exception(i) == i + 1

\* analyzer = PriceAnalyzer(config.get('analysis', {})); all_analyses = [];
\* all_news = {}
StartAnalysis ==
    /\ pc = "step1"
    /\ \E config \in Configs : analyzer' = config
    /\ pc' = "loop"
    /\ ticker_idx' = 1
    /\ all_analyses' = << >>
    /\ all_news' = << >>
    /\ UNCHANGED <<attempts, engine_vars>>
    /\ UNCHANGED <<repeat_vars, rec_vars, setup_vars, client_vars>>

\* the body of `for ticker in cedears` for one ticker: fetch, analyze,
\* append, news; an exception anywhere in the try is logged and the loop
\* goes on
AnalyzeTicker ==
    /\ pc = "loop"
    /\ ticker_idx <= Len(cedears)
    /\ \E fetch \in FetchOutcomes :
          LET ticker == cedears[ticker_idx]
          IN  IF fetch.raised
              THEN /\ attempts' = Append(attempts,
                        [ticker |-> ticker, fetch |-> fetch, analysis |-> fetch])
                   /\ ticker_idx' = next_after_exception(ticker_idx)
                   /\ UNCHANGED <<all_analyses, all_news>>
              ELSE \E analysis \in {analyze(analyzer, fetch.value.close,
                                            fetch.value.volume)} :
                   /\ attempts' = Append(attempts,
                        [ticker |-> ticker, fetch |-> fetch, analysis |-> analysis])
                   /\ IF analysis.raised
                      THEN /\ ticker_idx' = next_after_exception(ticker_idx)
                           /\ UNCHANGED <<all_analyses, all_news>>
                      ELSE /\ all_analyses' =
                                Append(all_analyses,
                                       [ticker |-> ticker, analysis |-> analysis.value])
                           /\ all_news' =
                                all_news @@ (ticker :> get_cedear_news(ticker))
                           /\ ticker_idx' = ticker_idx + 1
    /\ UNCHANGED <<pc, analyzer, engine_vars>>
    /\ UNCHANGED <<repeat_vars, rec_vars, setup_vars, client_vars>>

\* the list is exhausted: "Analisis completado para N CEDEARS"
FinishAnalysis ==
    /\ pc = "loop"
    /\ ticker_idx > Len(cedears)
    /\ pc' = "step3"
    /\ UNCHANGED <<analyzer, ticker_idx, all_analyses, all_news, attempts,
                   engine_vars>>
    /\ UNCHANGED <<repeat_vars, rec_vars, setup_vars, client_vars>>

MainNext == StartAnalysis \/ AnalyzeTicker \/ FinishAnalysis

MainSpec == Init /\ [][MainNext]_vars

---------------------------------------------------------------------------
(* Calls in a row on one analyzer: the PriceAnalyzer main() built is called *)
(* on any ticker of the list and any frame, in any order, the same ticker   *)
(* and frame again included.  Each call reads the clock when it builds the  *)
(* dict it returns; the clock has moved on since the previous call.         *)

\* the frames get_cedear_history returns
Frames == {fetch.value : fetch \in {f \in FetchOutcomes : ~f.raised}}

\* the dict analyze() returns: the indicator fields, 'ticker', and
\* 'timestamp': pd.Timestamp.now().isoformat()
stamped(snapshot, ticker, instant) ==
    snapshot @@ [ticker |-> ticker, timestamp |-> instant]

\* self.config.setdefault('rsi_period', 14) in place of self.config.get: the
\* default is stored in the configuration
analyze_call_setdefault(config, ticker, frame, instant) ==
    LET out == analyze(config, frame.close, frame.volume)
    IN  [result |-> IF out.raised THEN out
                    ELSE Returned(stamped(out.value, ticker, instant)),
         config |-> config @@ [rsi_period |-> DEFAULT_RSI_PERIOD],
         frame |-> frame]

\* analyzer.analyze(ticker, price_data) as a method call: what it returns,
\* and what it leaves in self.config and in the caller's frame.  The method
\* assigns no attribute of self, reads the configuration with dict.get, and
\* calls only pandas methods that return new objects (diff, where, rolling,
\* ewm, mean, min, max, tail).
analyze_call(config, ticker, frame, instant) ==
    LET out == analyze(config, frame.close, frame.volume)
    IN  [result |-> IF out.raised THEN out
                    ELSE Returned(stamped(out.value, ticker, instant)),
         config |-> config,
         frame |-> frame]

\* main() after analyzer = PriceAnalyzer(config.get('analysis', {}))
RepeatInit ==
    /\ EngineInit
    /\ pc = "loop"
    /\ analyzer \in Configs
    /\ ticker_idx = 1
    /\ all_analyses = << >>
    /\ all_news = << >>
    /\ attempts = << >>
    /\ RepeatIdle
    /\ RecIdle
    /\ SetupIdle
    /\ ClientIdle

\* one call analyzer.analyze(ticker, frame)
CallAnalyze ==
    /\ Len(calls) < MaxCalls
    /\ \E i \in 1..Len(cedears), frame \in Frames :
          \E out \in {analyze_call(analyzer, cedears[i], frame, now + 1)} :
              /\ now' = now + 1
              /\ calls' = Append(calls, [ticker |-> cedears[i],
                                         config |-> analyzer,
                                         frame |-> frame,
                                         out |-> out])
              /\ analyzer' = out.config
    /\ UNCHANGED <<pc, ticker_idx, all_analyses, all_news, attempts>>
    /\ UNCHANGED <<engine_vars, rec_vars, setup_vars, client_vars>>

RepeatNext == CallAnalyze

RepeatSpec == RepeatInit /\ [][RepeatNext]_vars

---------------------------------------------------------------------------
(* OllamaClient.generate and RecommendationEngine.                          *)
(* A response text is represented by its length in characters and by what   *)
(* the parser reads off it: re.search(r'\{.*\}') followed by json.loads     *)
(* either raises or yields a JSON object.  A JSON value is a record [t, v]. *)
(* The free-text fields of a recommendation (reasoning, key_factors) pass   *)
(* through unread and are left out.                                         *)

JStr(s) == [t |-> "str", v |-> s]
JNum(x) == [t |-> "num", v |-> x]
JNull == [t |-> "null"]
\* json.loads raises on the text
InvalidJson == [t |-> "invalid"]

\* generate() returned None
NoResponse == [none |-> TRUE]
Text(chars, json) == [none |-> FALSE, chars |-> chars, json |-> json]
EmptyText == Text(0, InvalidJson)

\* the texts the model answers with: prose without any JSON; the object the
\* prompt asks for; the same with the action in lower case and a long
\* explanation around it; the empty object; an action outside the three the
\* prompt names; a null action; a confidence in words
AiTexts ==
    {Text(60, InvalidJson),
     Text(200, [recommendation |-> JStr("COMPRAR"),
                confidence |-> JNum(Rat(4, 5)),
                risk_level |-> JStr("BAJO"),
                price_target |-> JNum(Int2F(130))]),
     Text(600, [recommendation |-> JStr("vender"),
                confidence |-> JNum(Rat(3, 5))]),
     Text(2, EmptyDict),
     Text(80, [recommendation |-> JStr("HOLD"),
               confidence |-> JNum(Rat(1, 2))]),
     Text(30, [recommendation |-> JNull]),
     Text(90, [recommendation |-> JStr("MANTENER"),
               confidence |-> JStr("alta")])}

\* how requests.post(...) for /api/generate ends: an exception (connection,
\* timeout, HTTP status), or a JSON body with or without a 'response' key
RequestError == [error |-> TRUE]
HttpOk(body) == [error |-> FALSE, body |-> body]
GenerateOutcomes ==
    {RequestError, HttpOk(EmptyDict), HttpOk([response |-> EmptyText])}
        \cup {HttpOk([response |-> text]) : text \in AiTexts}

\* OllamaClient.generate: None on any exception, else result.get('response', '')
generate(outcome) ==
    IF outcome.error THEN NoResponse
    ELSE get(outcome.body, "response", EmptyText)

\* Python truth value of a float or None: None and 0.0 are false, nan is true
truthy(x) == x.k # "None" /\ ~(x.k = "num" /\ x.n = 0)

\* str.upper() on the words the responses carry
upper(word) ==
    IF word = "vender" THEN "VENDER"
    ELSE IF word = "comprar" THEN "COMPRAR"
    ELSE IF word = "mantener" THEN "MANTENER"
    ELSE word

AI_ANALYSIS_CHARS == 500

_generate_technical_recommendation(ticker, analysis_data) ==
    LET rsi == get(analysis_data, "rsi", None)
        trend == get(get(analysis_data, "trend", EmptyDict), "trend", "sideways")
        momentum_7d ==
            get(get(analysis_data, "momentum", EmptyDict), 7, Int2F(0))
        choice ==
            IF truthy(rsi) /\ FLt(rsi, Int2F(30)) /\ trend = "bullish"
            THEN [action |-> "COMPRAR", confidence |-> Rat(7, 10)]
            ELSE IF truthy(rsi) /\ FGt(rsi, Int2F(70)) /\ trend = "bearish"
            THEN [action |-> "VENDER", confidence |-> Rat(7, 10)]
            ELSE IF FGt(momentum_7d, Int2F(5))
            THEN [action |-> "COMPRAR", confidence |-> Rat(6, 10)]
            ELSE IF FLt(momentum_7d, Int2F(-5))
            THEN [action |-> "VENDER", confidence |-> Rat(6, 10)]
            ELSE [action |-> "MANTENER", confidence |-> Rat(5, 10)]
    IN  [ticker |-> ticker,
         action |-> choice.action,
         confidence |-> choice.confidence,
         price_target |-> JNull,
         risk_level |-> JStr("MEDIO"),
         current_price |-> get(analysis_data, "current_price", None)]

_default_recommendation(ticker, analysis_data) ==
    [ticker |-> ticker,
     action |-> "MANTENER",
     confidence |-> Rat(3, 10),
     price_target |-> JNull,
     risk_level |-> JStr("ALTO"),
     current_price |-> get(analysis_data, "current_price", None)]

\* the try block guards the parsing only: None.upper() (AttributeError) and
\* float() of a non-number (ValueError, TypeError) are raised outside it
_parse_ai_response(ticker, analysis_data, ai_response) ==
    IF ai_response.json = InvalidJson
    THEN Returned(_generate_technical_recommendation(ticker, analysis_data))
    ELSE LET parsed == ai_response.json
             recommendation == get(parsed, "recommendation", JStr("MANTENER"))
             confidence == get(parsed, "confidence", JNum(Rat(1, 2)))
         IN  IF recommendation.t # "str" THEN Raised("AttributeError")
             ELSE IF confidence.t = "str" THEN Raised("ValueError")
             ELSE IF confidence.t # "num" THEN Raised("TypeError")
             ELSE Returned(
                 [ticker |-> ticker,
                  action |-> upper(recommendation.v),
                  confidence |-> confidence.v,
                  price_target |-> get(parsed, "price_target", JNull),
                  risk_level |-> get(parsed, "risk_level", JStr("MEDIO")),
                  current_price |-> get(analysis_data, "current_price", None),
                  ai_analysis |-> Min2(ai_response.chars, AI_ANALYSIS_CHARS)])

\* `outcome` is how the HTTP request made by self.client.generate ends
analyze_cedear(ticker, analysis_data, outcome) ==
    LET ai_response == generate(outcome)
    IN  IF ai_response.none \/ ai_response.chars = 0
        THEN Returned(_default_recommendation(ticker, analysis_data))
        ELSE _parse_ai_response(ticker, analysis_data, ai_response)

---------------------------------------------------------------------------
(* ReportBuilder.build_report and the final summary of main() *)

\* [r for r in recommendations if r.get('action') == action]
with_action(recs, action) ==
    SelectSeq(recs, LAMBDA r : r.action = action)

\* list.sort(key=confidence, reverse=True): highest first, equal keys keep
\* the order they had
RECURSIVE sort_by_confidence(_)
sort_by_confidence(recs) ==
    IF Len(recs) <= 1 THEN recs
    ELSE LET front == sort_by_confidence(SubSeq(recs, 1, Len(recs) - 1))
             x == recs[Len(recs)]
             k == Cardinality({i \in 1..Len(front) :
                                  ~FLt(front[i].confidence, x.confidence)})
         IN  SubSeq(front, 1, k) \o <<x>> \o SubSeq(front, k + 1, Len(front))

\* the context handed to the template
build_report(recs) ==
    [built |-> TRUE,
     buy_recommendations |-> sort_by_confidence(with_action(recs, "COMPRAR")),
     sell_recommendations |-> sort_by_confidence(with_action(recs, "VENDER")),
     hold_recommendations |-> with_action(recs, "MANTENER"),
     total_analyzed |-> Len(recs)]

final_summary(recs) ==
    [logged |-> TRUE,
     buy_count |-> Len(with_action(recs, "COMPRAR")),
     sell_count |-> Len(with_action(recs, "VENDER")),
     hold_count |-> Len(with_action(recs, "MANTENER")),
     total |-> Len(recs)]

---------------------------------------------------------------------------
(* The workflow, steps 3 and 4 and the summary: one recommendation per      *)
(* analysis of all_analyses, in order; an exception out of analyze_cedear   *)
(* is logged and the loop goes on; then the report is built and the counts  *)
(* are logged.  (Step 5 mails the report and does not touch the list.)      *)

\* a full look-back history that moves by `lead` a day and then, over the
\* last DEFAULT_RSI_PERIOD days, by `even` on even days and `odd` on odd days
Swing(lead, even, odd) ==
    LET turn == LOOKBACK_DAYS - DEFAULT_RSI_PERIOD
    IN  [i \in 1..LOOKBACK_DAYS |->
            IF i <= turn THEN 100 * Unit + lead * (i - 1)
            ELSE LET evens == (i \div 2) - (turn \div 2)
                     odds == (i - turn) - evens
                 IN  100 * Unit + lead * (turn - 1) + even * evens + odd * odds]

\* the histories behind the analyses step 3 works on: none, the scenario of
\* the specification, a rally that ends in a slide (by 1/8 every other day;
\* by 3/8 and back up 1/8), a fall that ends in a bounce
RecHistories ==
    {<< >>, Scenario, Swing(8, -1, 0), Swing(8, -3, 1), Swing(-8, 3, -1)}

\* the frame get_cedear_history returns for a history
FrameOf(h) ==
    [close |-> h,
     volume |-> [present |-> Len(h) > 0,
                 values |-> [i \in 1..Len(h) |-> ScenarioVolume]]]

\* main() at the end of step 2, under the default configuration: the first
\* n tickers of the list analysed, the fetch of every later one failed
RecInit ==
    /\ EngineInit
    /\ pc = "step3"
    /\ analyzer = EmptyDict
    /\ ticker_idx = Len(cedears) + 1
    /\ \E n \in 0..Min2(MaxRecs, Len(cedears)) :
          \E hs \in [1..n -> RecHistories] :
              /\ attempts =
                    [i \in 1..Len(cedears) |->
                        IF i <= n
                        THEN [ticker |-> cedears[i],
                              fetch |-> Returned(FrameOf(hs[i])),
                              analysis |-> analyze(EmptyDict, hs[i],
                                                   FrameOf(hs[i]).volume)]
                        ELSE [ticker |-> cedears[i],
                              fetch |-> Raised("Exception"),
                              analysis |-> Raised("Exception")]]
              /\ all_analyses =
                    [i \in 1..n |->
                        [ticker |-> cedears[i],
                         analysis |-> analyze(EmptyDict, hs[i],
                                              FrameOf(hs[i]).volume).value]]
              /\ all_news =
                    [t \in {cedears[i] : i \in 1..n} |-> get_cedear_news(t)]
    /\ RepeatIdle
    /\ RecIdle
    /\ SetupIdle
    /\ ClientIdle

\* recommendation_engine = RecommendationEngine(config); recommendations = []
StartRecommendations ==
    /\ pc = "step3"
    /\ pc' = "recommend"
    /\ analysis_idx' = 1
    /\ recommendations' = << >>
    /\ UNCHANGED <<rec_log, report, summary>>
    /\ UNCHANGED <<analyzer, ticker_idx, all_analyses, all_news, attempts>>
    /\ UNCHANGED <<engine_vars, repeat_vars, setup_vars, client_vars>>

\* the body of `for analysis in all_analyses` for one analysis
RecommendTicker ==
    /\ pc = "recommend"
    /\ analysis_idx <= Len(all_analyses)
    /\ \E outcome \in GenerateOutcomes :
          LET analysis == all_analyses[analysis_idx]
          IN  \E out \in {analyze_cedear(analysis.ticker, analysis.analysis,
                                         outcome)} :
                  /\ rec_log' = Append(rec_log,
                        [ticker |-> analysis.ticker,
                         analysis |-> analysis.analysis,
                         ai_response |-> generate(outcome),
                         outcome |-> out])
                  /\ recommendations' =
                        IF out.raised THEN recommendations
                        ELSE Append(recommendations, out.value)
    /\ analysis_idx' = analysis_idx + 1
    /\ UNCHANGED <<pc, report, summary>>
    /\ UNCHANGED <<analyzer, ticker_idx, all_analyses, all_news, attempts>>
    /\ UNCHANGED <<engine_vars, repeat_vars, setup_vars, client_vars>>

\* step 4: html_report = report_builder.build_report(recommendations, ...)
BuildReport ==
    /\ pc = "recommend"
    /\ analysis_idx > Len(all_analyses)
    /\ report' = build_report(recommendations)
    /\ pc' = "step5"
    /\ UNCHANGED <<analysis_idx, recommendations, rec_log, summary>>
    /\ UNCHANGED <<analyzer, ticker_idx, all_analyses, all_news, attempts>>
    /\ UNCHANGED <<engine_vars, repeat_vars, setup_vars, client_vars>>

\* "RESUMEN DEL ANALISIS": buy_count, sell_count, hold_count and the total
Summarize ==
    /\ pc = "step5"
    /\ summary' = final_summary(recommendations)
    /\ pc' = "done"
    /\ UNCHANGED <<analysis_idx, recommendations, rec_log, report>>
    /\ UNCHANGED <<analyzer, ticker_idx, all_analyses, all_news, attempts>>
    /\ UNCHANGED <<engine_vars, repeat_vars, setup_vars, client_vars>>

RecNext ==
    StartRecommendations \/ RecommendTicker \/ BuildReport \/ Summarize

RecSpec == RecInit /\ [][RecNext]_vars

---------------------------------------------------------------------------
(* ensure_ollama_ready (src/src/utils/ollama_setup.py), called by main()    *)
(* when api_provider is 'ollama'.  ollama is the world it looks at: whether *)
(* the binary is installed and, for each URL, whether a service answers     *)
(* there and which models it lists.  A model name is the sequence of its    *)
(* parts, so that str.startswith is the prefix test on sequences.           *)

LocalUrl == "http://localhost:11434"
RemoteUrl == "http://gpu-host:11434"
Urls == {LocalUrl, RemoteUrl}

\* ai.model of the configuration, and names a service lists in /api/tags
Llama3 == <<"llama3">>
ModelSets == {{}, {<<"llama3", ".1", ":8b">>}, {<<"llama3", ":latest">>}}

\* name.startswith(prefix)
startswith(name, prefix) ==
    /\ Len(name) >= Len(prefix)
    /\ SubSeq(name, 1, Len(prefix)) = prefix

\* check_ollama_running(base_url): GET base_url/api/tags answers 200
check_ollama_running(world, base_url) == world.running[base_url]

\* check_model_available(model, base_url): some listed name starts with model
check_model_available(world, model, base_url) ==
    /\ world.running[base_url]
    /\ \E m \in world.models[base_url] : startswith(m, model)

\* one more call, and what it returned, on the record of the invocation
Invoked(st, fn, ok) ==
    [st EXCEPT !.invoked = Append(st.invoked, [fn |-> fn, ok |-> ok])]

\* return result
ReturnValue(st, result) ==
    [pc |-> "returned", model |-> st.model, base_url |-> st.base_url,
     auto_install |-> st.auto_install,
     auto_download_model |-> st.auto_download_model,
     invoked |-> st.invoked, result |-> result]

\* main() calls ensure_ollama_ready(model, base_url, auto_install,
\* auto_download_model) in some world
SetupInit ==
    /\ EngineInit
    /\ LoopInit
    /\ RepeatIdle
    /\ RecIdle
    /\ ClientIdle
    /\ \E installed \in BOOLEAN, running \in [Urls -> BOOLEAN],
          models \in [Urls -> ModelSets] :
          ollama = [installed |-> installed, running |-> running,
                    models |-> models]
    /\ \E base_url \in Urls, auto_install \in BOOLEAN,
          auto_download_model \in BOOLEAN :
          setup = [pc |-> "check_installed", model |-> Llama3,
                   base_url |-> base_url, auto_install |-> auto_install,
                   auto_download_model |-> auto_download_model,
                   invoked |-> << >>]

\* if not check_ollama_installed(): ...
CheckInstalled ==
    /\ setup.pc = "check_installed"
    /\ LET st == Invoked(setup, "check_ollama_installed", ollama.installed)
       IN  setup' = IF ollama.installed THEN [st EXCEPT !.pc = "check_running"]
                    ELSE IF setup.auto_install THEN [st EXCEPT !.pc = "install"]
                    ELSE ReturnValue(st, FALSE)
    /\ UNCHANGED ollama
    /\ UNCHANGED <<engine_vars, main_vars, repeat_vars, rec_vars, client_vars>>

\* if not install_ollama(): return False.  The script ends with status 0 and
\* the binary is there, or install_ollama returns False
InstallOllama ==
    /\ setup.pc = "install"
    /\ \E ok \in BOOLEAN :
          LET st == Invoked(setup, "install_ollama", ok)
          IN  /\ setup' = IF ok THEN [st EXCEPT !.pc = "check_running"]
                          ELSE ReturnValue(st, FALSE)
              /\ ollama' = IF ok THEN [ollama EXCEPT !.installed = TRUE]
                           ELSE ollama
    /\ UNCHANGED <<engine_vars, main_vars, repeat_vars, rec_vars, client_vars>>

\* if not check_ollama_running(base_url): ...
CheckRunning ==
    /\ setup.pc = "check_running"
    /\ LET ok == check_ollama_running(ollama, setup.base_url)
           st == Invoked(setup, "check_ollama_running", ok)
       IN  setup' = IF ok THEN [st EXCEPT !.pc = "check_model"] ELSE [st EXCEPT !.pc = "start"]
    /\ UNCHANGED ollama
    /\ UNCHANGED <<engine_vars, main_vars, repeat_vars, rec_vars, client_vars>>

\* if not start_ollama_service(): return False.  `ollama serve` is launched
\* on this machine and check_ollama_running() is polled with its default
\* URL for 10 seconds: the local service answers in time (it does when it
\* was up already) or it does not
StartService ==
    /\ setup.pc = "start"
    /\ \E comes_up \in BOOLEAN :
          LET ok == ollama.running[LocalUrl] \/ comes_up
              st == Invoked(setup, "start_ollama_service", ok)
          IN  /\ setup' = IF ok THEN [st EXCEPT !.pc = "check_model"]
                          ELSE ReturnValue(st, FALSE)
              /\ ollama' = [ollama EXCEPT !.running[LocalUrl] = ok]
    /\ UNCHANGED <<engine_vars, main_vars, repeat_vars, rec_vars, client_vars>>

\* if not check_model_available(model, base_url): ...
CheckModel ==
    /\ setup.pc = "check_model"
    /\ LET ok == check_model_available(ollama, setup.model, setup.base_url)
           st == Invoked(setup, "check_model_available", ok)
       IN  setup' = IF ok THEN ReturnValue(st, TRUE)
                    ELSE IF setup.auto_download_model THEN [st EXCEPT !.pc = "download"]
                    ELSE ReturnValue(st, FALSE)
    /\ UNCHANGED ollama
    /\ UNCHANGED <<engine_vars, main_vars, repeat_vars, rec_vars, client_vars>>

\* if not download_model(model, base_url): return False.  POST /api/pull:
\* no service at base_url or a status other than 200 gives False; status 200
\* gives True once the stream has been read, whether its lines report the
\* pull done or an error (the lines are only logged)
DownloadModel ==
    /\ setup.pc = "download"
    /\ \E pull \in {"pulled", "error_line", "bad_status"} :
          LET ok == ollama.running[setup.base_url] /\ pull # "bad_status"
              st == Invoked(setup, "download_model", ok)
          IN  /\ setup' = ReturnValue(st, ok)
              /\ ollama' =
                    IF ok /\ pull = "pulled"
                    THEN [ollama EXCEPT !.models[setup.base_url] =
                             @ \cup {setup.model \o <<":latest">>}]
                    ELSE ollama
    /\ UNCHANGED <<engine_vars, main_vars, repeat_vars, rec_vars, client_vars>>

SetupNext ==
    \/ CheckInstalled \/ InstallOllama
    \/ CheckRunning \/ StartService
    \/ CheckModel \/ DownloadModel

SetupSpec == SetupInit /\ [][SetupNext]_vars

---------------------------------------------------------------------------
(* PortfolioPersonalClient: the session fields and the data requests.  A    *)
(* value that is None or a string (the ApiSecret, a token read from the     *)
(* login response) is a JSON value: JNull or JStr.                          *)

\* `not value` for None or a string
falsy(value) == value = JNull \/ value = JStr("")


\* token_data.get('expires', 3600), in seconds
DEFAULT_EXPIRES == 3600

\* how the POST to Account/LoginApi ends: an exception (connection, timeout,
\* HTTP status, a body that is not JSON), or a JSON object: with a token and
\* its lifetime, with a token and no lifetime, with a lifetime that is not
\* a number, or without the token keys (an error message)
LoginBody(token_data) == [error |-> FALSE, token_data |-> token_data]
LoginOutcomes ==
    {[error |-> TRUE],
     LoginBody([accessToken |-> JStr("tok-a"), refreshToken |-> JStr("ref-a"),
                expires |-> JNum(1)]),
     LoginBody([accessToken |-> JStr("tok-b"), refreshToken |-> JStr("ref-b")]),
     LoginBody([accessToken |-> JStr("tok-c"), expires |-> JStr("1h")]),
     LoginBody([message |-> JStr("Unauthorized")])}

\* _get_headers(): Authorization only when a token is held
_get_headers(self) ==
    IF falsy(self.access_token)
    THEN [AuthorizedClient |-> "API_CLI_REST", ClientKey |-> "key"]
    ELSE [AuthorizedClient |-> "API_CLI_REST", ClientKey |-> "key",
          Authorization |-> <<"Bearer", self.access_token.v>>]

\* login(): the value returned and the fields it leaves.  The token fields
\* are assigned before the expiry is computed, inside the try
login(self, outcome, instant) ==
    IF falsy(self.api_secret) THEN [result |-> FALSE, self |-> self]
    ELSE IF outcome.error THEN [result |-> FALSE, self |-> self]
    ELSE LET token_data == outcome.token_data
             with_tokens ==
                 [self EXCEPT
                     !.access_token = get(token_data, "accessToken", JNull),
                     !.refresh_token = get(token_data, "refreshToken", JNull)]
             expires_in == get(token_data, "expires", JNum(DEFAULT_EXPIRES))
         IN  IF expires_in.t # "num"
             THEN [result |-> FALSE, self |-> with_tokens]
             ELSE [result |-> TRUE,
                   self |-> [with_tokens EXCEPT !.token_expires_at =
                                [t |-> "time", v |-> instant + expires_in.v]]]

\* not self.access_token or
\* (self.token_expires_at and datetime.now() >= self.token_expires_at)
needs_login(self, instant) ==
    \/ falsy(self.access_token)
    \/ /\ self.token_expires_at # JNull
       /\ instant >= self.token_expires_at.v

\* _ensure_authenticated(): the value returned, whether login() was called
\* and what it returned, and the fields left
_ensure_authenticated(self, outcome, instant) ==
    IF falsy(self.api_secret)
    THEN [result |-> TRUE, login_called |-> FALSE, self |-> self]
    ELSE IF needs_login(self, instant)
    THEN LET done == login(self, outcome, instant)
         IN  [result |-> done.result, login_called |-> TRUE,
              self |-> done.self]
    ELSE [result |-> TRUE, login_called |-> FALSE, self |-> self]

\* PortfolioPersonalClient(api_key, authorized_client, client_key,
\* api_secret): with or without an ApiSecret, no token yet
ClientInit ==
    /\ EngineInit
    /\ LoopInit
    /\ RecIdle
    /\ SetupIdle
    /\ now = 0
    /\ calls = << >>
    /\ \E api_secret \in {JNull, JStr("secret")} :
          client = [api_secret |-> api_secret,
                    access_token |-> JNull,
                    refresh_token |-> JNull,
                    token_expires_at |-> JNull]
    /\ requests = << >>

\* time passes between two requests
Tick ==
    /\ now < MaxClock
    /\ now' = now + 1
    /\ UNCHANGED <<calls, client, requests>>
    /\ UNCHANGED <<engine_vars, main_vars, rec_vars, setup_vars>>

\* get_cedear_history / get_cedear_price: self._ensure_authenticated(), whose
\* value is not looked at, then headers = self._get_headers() and the GET
DataRequest ==
    /\ Len(requests) < MaxRequests
    /\ \E outcome \in LoginOutcomes :
          \E ensured \in {_ensure_authenticated(client, outcome, now)} :
              /\ client' = ensured.self
              /\ requests' = Append(requests,
                    [at |-> now,
                     before |-> client,
                     ensured |-> ensured.result,
                     login_called |-> ensured.login_called,
                     after |-> ensured.self,
                     headers |-> _get_headers(ensured.self)])
    /\ UNCHANGED <<now, calls>>
    /\ UNCHANGED <<engine_vars, main_vars, rec_vars, setup_vars>>

ClientNext == Tick \/ DataRequest

ClientSpec == ClientInit /\ [][ClientNext]_vars

---------------------------------------------------------------------------
(* Claims *)

\* analyze() has been called and has returned a snapshot
Analyzed == ret.op = "analyze" /\ ~ret.raised
N == Len(price_data)

\* x is the float h/100 for an integer h
Hundredths(x) == x.n * (100 \div x.d)
IsHundredths(x) == x.k = "num" /\ 100 % x.d = 0

\* h/100 is num/den (den > 0) rounded to 2 decimals, ties to the even h
IsRound2(h, num, den) ==
    LET e == Abs(den * h - 100 * num)
    IN  /\ 2 * e <= den
        /\ (2 * e = den => h % 2 = 0)

\* C1: for every series that is empty or has fewer than 20 points, analyze()
\* returns the fallback snapshot: current_price, RSI and the MACD triple
\* undefined, trend insufficient_data with strength 0, support and resistance
\* undefined, momentum 1d/7d/30d all 0, volume trend unknown.
C1_FallbackSnapshot ==
    (Analyzed /\ N < 20) =>
        LET s == ret.snapshot
        IN  /\ s.current_price = None
            /\ s.rsi = None
            /\ s.macd.value = None
            /\ s.macd.signal = None
            /\ s.macd.histogram = None
            /\ s.trend.trend = "insufficient_data"
            /\ s.trend.strength = Int2F(0)
            /\ s.support_resistance.support = None
            /\ s.support_resistance.resistance = None
            /\ \A d \in {1, 7, 30} : s.momentum[d] = Int2F(0)
            /\ s.volume.trend = "unknown"

\* a 19-point series whose last close moved has been analysed
C1_Witness ==
    /\ Analyzed
    /\ N = 19
    /\ price_data[19] # price_data[18]

\* C2: for every series of at least 20 points the snapshot's current_price is
\* the last close rounded to 2 decimals.
C2_CurrentPrice ==
    (Analyzed /\ N >= 20) =>
        LET cp == ret.snapshot.current_price
        IN  /\ IsHundredths(cp)
            /\ IsRound2(Hundredths(cp), price_data[N], Unit)

\* the last close ends in .125, which is not a multiple of 0.01
C2_Witness ==
    /\ Analyzed
    /\ N >= 20
    /\ price_data[N] % Unit = 1

\* the momentum formula at horizon d on the current series
MomentumIsFormula(d) ==
    LET m == ret.snapshot.momentum[d]
        last == price_data[N]
        past == price_data[N - d]
    IN  /\ IsHundredths(m)
        /\ IsRound2(Hundredths(m), 100 * (last - past), past)

\* C3 as stated: for each horizon d in {1, 7, 30} and every series with at
\* least d+1 points the snapshot's momentum is the percent change over d
\* periods rounded to 2 decimals.
C3_Original ==
    Analyzed => \A d \in {1, 7, 30} : N >= d + 1 => MomentumIsFormula(d)

\* C3 amended: the same for every series with at least 20 and at least d+1
\* points (a shorter series gets the fallback snapshot, momentum 0).
C3_Momentum ==
    (Analyzed /\ N >= 20) =>
        \A d \in {1, 7, 30} : N >= d + 1 => MomentumIsFormula(d)

\* a series of 31 points or more with a non-zero 30-period and 7-period change
C3_Witness ==
    /\ Analyzed
    /\ N >= 31
    /\ price_data[N] # price_data[N - 30]
    /\ price_data[N] # price_data[N - 7]
    /\ ret.snapshot.momentum[30] # Int2F(0)

\* least-squares slope of the closes against 0..n-1, from deviations about
\* the mean index: slope = SlopeNum / (Unit * SlopeDen) price units per period
SlopeNum ==
    2 * SumRange([i \in 1..N |-> (2 * (i - 1) - (N - 1)) * price_data[i]], 1, N)
SlopeDen == SumRange([i \in 1..N |-> (2 * (i - 1) - (N - 1)) * (2 * (i - 1) - (N - 1))], 1, N)

\* C4: for every series of at least 20 closes the direction is bullish exactly
\* when the least-squares slope is > 0.1, bearish exactly when it is < -0.1,
\* sideways otherwise; the thresholds are absolute (price per period); the
\* 20-point scenario of the specification is bullish.
C4_TrendDirection ==
    (Analyzed /\ N >= 20) =>
        LET t == ret.snapshot.trend.trend
        IN  /\ (t = "bullish") <=> (10 * SlopeNum > Unit * SlopeDen)
            /\ (t = "bearish") <=> (10 * SlopeNum < -(Unit * SlopeDen))
            /\ (t = "sideways") <=>
                  (/\ 10 * SlopeNum <= Unit * SlopeDen
                   /\ 10 * SlopeNum >= -(Unit * SlopeDen))
            /\ (price_data = Scenario => t = "bullish")

\* the scenario of the specification has been analysed
C4_Witness ==
    /\ Analyzed
    /\ price_data = Scenario

SetMin(S) == CHOOSE m \in S : \A x \in S : m <= x
SetMax(S) == CHOOSE m \in S : \A x \in S : m >= x

\* the trailing windows of the current series, one per position that has one
Windows ==
    LET w == IF N >= 40 THEN 10 ELSE N \div 4
    IN  {{price_data[j] : j \in (i - w + 1)..i} : i \in w..N}

\* C5: for every series of n >= 20 closes, with window = min(10, floor(n/4)),
\* support is the minimum over all positions of the trailing-window rolling
\* minimum and resistance the maximum of the rolling maximum, each rounded
\* to 2 decimals.
C5_SupportResistance ==
    (Analyzed /\ N >= 20) =>
        LET sr == ret.snapshot.support_resistance
        IN  /\ IsHundredths(sr.support)
            /\ IsRound2(Hundredths(sr.support),
                        SetMin({SetMin(W) : W \in Windows}), Unit)
            /\ IsHundredths(sr.resistance)
            /\ IsRound2(Hundredths(sr.resistance),
                        SetMax({SetMax(W) : W \in Windows}), Unit)

\* the lowest close lies outside the last window and the highest close too
C5_Witness ==
    /\ Analyzed
    /\ N >= 20
    /\ LET w == N \div 4
       IN  /\ MinRange(price_data, 1, N) < MinRange(price_data, N - w + 1, N)
           /\ MaxRange(price_data, 1, N) > MaxRange(price_data, N - w + 1, N)

\* every series a history that now holds `closes` can grow into
RECURSIVE SeriesFrom(_, _)
SeriesFrom(frontier, n) ==
    IF n = 0 THEN frontier
    ELSE frontier \cup
         SeriesFrom(UNION {{Append(s, c) : c \in NextCloses(s)} : s \in frontier},
                    n - 1)
Obtainable(closes) ==
    SeriesFrom({closes}, MaxLen - Len(closes))
        \cup (IF closes = << >> THEN Scenarios ELSE {})

\* C6 as stated: there are series of at least 20 closes for which
\* identify_support_resistance returns a support above the current price or
\* a resistance below it (stated of the series obtainable from the empty
\* history).
C6_Original ==
    (price_data = << >>) =>
        \E s \in Obtainable(price_data) :
            /\ Len(s) >= 20
            /\ LET sr == identify_support_resistance(s)
               IN  \/ FGt(sr.support, sr.current_price)
                   \/ FLt(sr.resistance, sr.current_price)

\* C6 amended: for every series of at least 20 closes the result satisfies
\* support <= current_price <= resistance.
C6_Bounded ==
    (Analyzed /\ N >= 20) =>
        LET sr == ret.snapshot.support_resistance
        IN  /\ IsNum(sr.support) /\ IsNum(sr.resistance) /\ IsNum(sr.current_price)
            /\ ~FGt(sr.support, sr.current_price)
            /\ ~FLt(sr.resistance, sr.current_price)

\* a steadily falling series has been analysed: its current price is its
\* lowest close, below every earlier rolling minimum
C6_Witness ==
    /\ Analyzed
    /\ N >= 20
    /\ \A i \in 2..N : price_data[i] < price_data[i - 1]
    /\ ret.snapshot.support_resistance.support
          = ret.snapshot.support_resistance.current_price

RsiCalled == ret.op = "calculate_rsi"

\* C7: for any input series and any period, every defined value of the
\* series returned by calculate_rsi lies in [0, 100]; so does the RSI of a
\* snapshot.
C7_RsiRange ==
    /\ RsiCalled =>
          \A i \in 1..N :
              ret.rsi[i].k # "nan" =>
                  /\ ret.rsi[i].k = "num"
                  /\ 0 <= ret.rsi[i].n
                  /\ ret.rsi[i].n <= 100 * ret.rsi[i].d
    /\ (Analyzed /\ N >= 20 /\ ret.snapshot.rsi.k # "nan") =>
          /\ ret.snapshot.rsi.k = "num"
          /\ 0 <= ret.snapshot.rsi.n
          /\ ret.snapshot.rsi.n <= 100 * ret.snapshot.rsi.d

\* a window holding both a gain and a loss: an RSI strictly inside (0, 100)
C7_Witness ==
    /\ RsiCalled
    /\ \E i \in 1..N :
          /\ ret.rsi[i].k = "num"
          /\ 0 < ret.rsi[i].n
          /\ ret.rsi[i].n < 100 * ret.rsi[i].d

\* the closes of the window of `period` day-to-day changes ending at i
\* (the change into the first record counts as none)
LossesInWindow(i, period) ==
    {j \in (i - period + 1)..i : j > 1 /\ price_data[j] < price_data[j - 1]}

\* C8: at every position where the rolling mean of losses over `period` is
\* zero (a window without any change included), calculate_rsi yields 100.
C8_SaturatesAt100 ==
    RsiCalled =>
        \A i \in ret.period..N :
            LossesInWindow(i, ret.period) = {} => ret.rsi[i] = Int2F(100)

\* C9: the first `period` positions of the series returned by calculate_rsi
\* are undefined.
C9_FirstPeriodUndefined ==
    RsiCalled =>
        \A i \in 1..N : i <= ret.period => ret.rsi[i].k = "nan"

MacdCalled == ret.op = "calculate_macd"

\* C10: at every position the histogram returned by calculate_macd is the
\* MACD line minus the signal line: histogram + signal = macd.
C10_HistogramIdentity ==
    MacdCalled =>
        /\ DOMAIN ret.out.histogram = DOMAIN ret.out.macd
        /\ \A i \in 1..N :
              FAdd(ret.out.histogram[i], ret.out.signal[i]) = ret.out.macd[i]

\* a call whose histogram is non-zero at the last position
C10_Witness ==
    /\ MacdCalled
    /\ N >= 3
    /\ ret.fast < ret.slow
    /\ ret.out.histogram[N] # Int2F(0)
    /\ ret.out.macd[N] # Int2F(0)

MaCalled == ret.op = "calculate_moving_averages"

\* the sum of the closes at the positions in S
RECURSIVE CloseSum(_)
CloseSum(S) ==
    IF S = {} THEN 0
    ELSE LET j == CHOOSE j \in S : TRUE
         IN  price_data[j] + CloseSum(S \ {j})

\* C11: calculate_moving_averages, for each requested window w: a series of
\* fewer than w points gives a series without any defined value (and no
\* error); otherwise the value at every position i >= w-1 (counted from 0) is
\* the arithmetic mean of the closes at i-w+1 .. i and the positions before
\* are undefined; closes [10, 20, 30] with w = 2 give 25.0 at the last position.
C11_MovingAverages ==
    MaCalled =>
        /\ DOMAIN ret.ma_dict = ret.periods
        /\ \A w \in ret.periods :
              LET series == ret.ma_dict[w]
              IN  IF N < w
                  THEN \A i \in DOMAIN series : series[i] = NaN
                  ELSE /\ DOMAIN series = 1..N
                       /\ \A i \in 1..N :
                             IF i >= w
                             THEN /\ series[i].k = "num"
                                  /\ series[i].n * w * Unit
                                        = series[i].d * CloseSum((i - w + 1)..i)
                             ELSE series[i] = NaN
        /\ (price_data = Example /\ 2 \in ret.periods) =>
              ret.ma_dict[2][3] = Int2F(25)

\* one requested window exceeds the series and another, of 2 or more closes
\* that differ, fits it
C11_Witness ==
    /\ MaCalled
    /\ N >= 2
    /\ price_data[N] # price_data[N - 1]
    /\ \E w1, w2 \in ret.periods : w1 > N /\ w2 >= 2 /\ w2 <= N

\* C12: for a series of at least 20 points, an indicator whose derived series
\* is undefined at its last position (a moving-average window above the
\* series length, an RSI period above it) gives the undefined marker None in
\* the snapshot, never a number nor not-a-number; every configured window has
\* an entry in moving_averages.
C12_UndefinedMarker ==
    (Analyzed /\ N >= 20) =>
        LET s == ret.snapshot
        IN  /\ DOMAIN s.moving_averages = ma_periods(ret.config)
            /\ \A w \in ma_periods(ret.config) :
                  w > N => s.moving_averages[w] = None
            /\ rsi_period(ret.config) > N => s.rsi = None

\* C13: for every horizon d and every series with at most d points the
\* momentum at horizon d in the snapshot is exactly 0, a number and not the
\* undefined marker.
C13_ShortMomentumZero ==
    Analyzed =>
        \A d \in {1, 7, 30} : N <= d => ret.snapshot.momentum[d] = Int2F(0)

\* a series analysed in full (20 to 30 points) whose last close moved: the
\* 1-period momentum is computed, the 30-period one falls back
C13_Witness ==
    /\ Analyzed
    /\ N >= 20
    /\ N <= 30
    /\ ret.snapshot.momentum[1] # Int2F(0)

VolumeCalled == ret.op = "_analyze_volume"

\* a volume assessment has been computed from a volume column
VolumeAssessed ==
    /\ VolumeCalled \/ (Analyzed /\ N >= 20)
    /\ volume_data.present
VolumeOut == IF VolumeCalled THEN ret.out ELSE ret.snapshot.volume

\* the sum of the volumes at the positions in S
RECURSIVE VolumeSum(_)
VolumeSum(S) ==
    IF S = {} THEN 0
    ELSE LET j == CHOOSE j \in S : TRUE
         IN  volume_data.values[j] + VolumeSum(S \ {j})

RecentCount == IF N < 5 THEN N ELSE 5
TotalVolume == VolumeSum(1..N)
RecentVolume == VolumeSum((N - RecentCount + 1)..N)

\* h is num/den (den > 0) rounded to an integer, ties to the even h
IsRound0(h, num, den) ==
    LET e == Abs(den * h - num)
    IN  /\ 2 * e <= den
        /\ (2 * e = den => h % 2 = 0)

\* trend = increasing exactly when the mean of the last 5 volumes (of all of
\* them when there are fewer) exceeds the mean of all, decreasing otherwise
VolumeTrendRule ==
    /\ (VolumeOut.trend = "increasing") <=>
          (RecentVolume * N > TotalVolume * RecentCount)
    /\ (VolumeOut.trend = "decreasing") <=>
          (RecentVolume * N <= TotalVolume * RecentCount)

\* C14 as stated: average is the mean of all volumes and recent_average the
\* mean of the last 5 (of all when fewer), and the trend follows the rule,
\* equal means giving decreasing.
C14_Original ==
    VolumeAssessed =>
        /\ VolumeOut.average = Rat(TotalVolume, N)
        /\ VolumeOut.recent_average = Rat(RecentVolume, RecentCount)
        /\ VolumeTrendRule

\* C14 amended: average and recent_average are those means rounded to the
\* nearest integer (ties to even); the trend compares the means themselves,
\* equal means giving decreasing.
C14_VolumeAssessment ==
    VolumeAssessed =>
        /\ VolumeOut.average.k = "num"
        /\ VolumeOut.average.d = 1
        /\ IsRound0(VolumeOut.average.n, TotalVolume, N)
        /\ VolumeOut.recent_average.k = "num"
        /\ VolumeOut.recent_average.d = 1
        /\ IsRound0(VolumeOut.recent_average.n, RecentVolume, RecentCount)
        /\ VolumeTrendRule

\* fewer than 5 volumes, not all equal: the two means coincide
C14_Witness ==
    /\ VolumeCalled
    /\ volume_data.present
    /\ N < 5
    /\ \E i, j \in 1..N : volume_data.values[i] # volume_data.values[j]
    /\ VolumeOut.trend = "decreasing"

\* the same frame with a volume column
WithVolumeColumn ==
    [present |-> TRUE, values |-> [i \in 1..N |-> ScenarioVolume]]

\* C15: when the frame has no volume column the volume assessment is
\* average = None, trend = unknown, and analyze() ends as it does on the same
\* closes with a volume column, every other field of the snapshot the same.
C15_NoVolumeColumn ==
    /\ (VolumeCalled /\ ~volume_data.present) =>
          ret.out = [average |-> None, trend |-> "unknown"]
    /\ (ret.op = "analyze" /\ N >= 20 /\ ~volume_data.present) =>
          LET usual == analyze(ret.config, price_data, WithVolumeColumn)
          IN  /\ ret.raised = usual.raised
              /\ ~ret.raised =>
                    /\ ret.snapshot.volume = [average |-> None, trend |-> "unknown"]
                    /\ \A f \in DOMAIN usual.value \ {"volume"} :
                          ret.snapshot[f] = usual.value[f]
                    /\ DOMAIN ret.snapshot = DOMAIN usual.value

\* a full analysis of a frame without a volume column
C15_Witness ==
    /\ Analyzed
    /\ N >= 20
    /\ ~volume_data.present
    /\ ret.snapshot.current_price # None
    /\ ret.snapshot.trend.trend = "bullish"

\* every configured period, span and window is a positive integer
PositiveConfig(config) ==
    /\ rsi_period(config) > 0
    /\ macd_fast(config) > 0
    /\ macd_slow(config) > 0
    /\ macd_signal(config) > 0
    /\ \A w \in ma_periods(config) : w > 0

C17_RejectsMalformed ==
    (ret.op = "analyze" /\ \E i \in 1..N : price_data[i] < 0) => ret.raised

\* the loop body of attempts[i] ended without an exception
Succeeded(a) == ~a.fetch.raised /\ ~a.analysis.raised
SucceededAttempts == SelectSeq(attempts, Succeeded)

\* C18: in the analysis loop a failure while fetching or analysing one ticker
\* neither blocks nor corrupts the others: the loop body runs for every
\* ticker of the list, in list order, and all_analyses holds, in that order,
\* exactly one snapshot for each ticker whose fetch and analyze() succeeded
\* (the one analyze() returned for it) and none for a ticker whose fetch or
\* analyze() raised.
C18_FailureIsolated ==
    /\ pc # "step1" =>
          /\ Len(attempts) <= Len(cedears)
          /\ \A i \in 1..Len(attempts) : attempts[i].ticker = cedears[i]
          /\ Len(all_analyses) = Len(SucceededAttempts)
          /\ \A i \in 1..Len(all_analyses) :
                /\ all_analyses[i].ticker = SucceededAttempts[i].ticker
                /\ all_analyses[i].analysis = SucceededAttempts[i].analysis.value
    /\ pc = "step3" => Len(attempts) = Len(cedears)

\* the loop has ended after a fetch that raised, then an analyze() that
\* raised, then a ticker analysed without failure
C18_Witness ==
    /\ pc = "step3"
    /\ \E i, j, k \in 1..Len(attempts) :
          /\ i < j
          /\ j < k
          /\ attempts[i].fetch.raised
          /\ ~attempts[j].fetch.raised
          /\ attempts[j].analysis.raised
          /\ Succeeded(attempts[k])

\* whether the configuration sets `key` to a value of its documented range
InRange(config, key) ==
    IF key = "rsi_period" THEN config[key] > 0
    ELSE IF key = "moving_averages" THEN \A w \in config[key] : w > 0
    ELSE /\ macd_fast(config) > 0
         /\ macd_slow(config) > 0
         /\ macd_signal(config) > 0
         /\ macd_fast(config) < macd_slow(config)

\* the configuration without the keys whose value is out of range
InRangeOnly(config) ==
    [key \in {k \in DOMAIN config : InRange(config, k)} |-> config[key]]

\* C19: a configuration value that is missing or out of range (a zero or
\* negative period, fast >= slow) is replaced by its documented default:
\* analyze() ends as it does under the configuration without those values.
C19_ConfigFallback ==
    (ret.op = "analyze" /\ N >= 20) =>
        LET expected == analyze(InRangeOnly(ret.config), price_data, volume_data)
        IN  /\ ret.raised = expected.raised
            /\ ~ret.raised => ret.snapshot = expected.value

\* a float of a snapshot that is a finite number or the undefined marker
FiniteOrNone(x) == x.k \in {"num", "finite", "None"}

\* C20: in every snapshot returned for a series of positive closes each
\* numeric field is a finite number or the undefined marker None, never
\* not-a-number or an infinity.
C20_FiniteOrUndefined ==
    (Analyzed /\ \A i \in 1..N : price_data[i] > 0) =>
        LET s == ret.snapshot
        IN  /\ FiniteOrNone(s.current_price)
            /\ FiniteOrNone(s.rsi)
            /\ FiniteOrNone(s.macd.value)
            /\ FiniteOrNone(s.macd.signal)
            /\ FiniteOrNone(s.macd.histogram)
            /\ \A w \in DOMAIN s.moving_averages :
                  FiniteOrNone(s.moving_averages[w])
            /\ FiniteOrNone(s.trend.strength)
            /\ ("slope" \in DOMAIN s.trend => FiniteOrNone(s.trend.slope))
            /\ FiniteOrNone(s.support_resistance.support)
            /\ FiniteOrNone(s.support_resistance.resistance)
            /\ \A d \in {1, 7, 30} : FiniteOrNone(s.momentum[d])
            /\ FiniteOrNone(s.volume.average)
            /\ ("recent_average" \in DOMAIN s.volume =>
                    FiniteOrNone(s.volume.recent_average))

\* C21: for every series of at least 20 closes, a constant one included,
\* analyze_trend returns a direction in {bullish, bearish, sideways} and a
\* strength that lies in [0, 1].
C21_TrendWellDefined ==
    (Analyzed /\ N >= 20) =>
        LET t == ret.snapshot.trend
        IN  /\ t.trend \in {"bullish", "bearish", "sideways"}
            /\ \/ t.strength.k = "finite"
               \/ /\ t.strength.k = "num"
                  /\ 0 <= t.strength.n
                  /\ t.strength.n <= t.strength.d

\* the closes strictly rise (sign 1) or strictly fall (sign -1) over the
\* `count` consecutive points that end at position i
Monotone(i, count, sign) ==
    /\ i >= count
    /\ \A j \in (i - count + 2)..i :
          Sign(price_data[j] - price_data[j - 1]) = sign

\* C24: if the closes strictly increase over period+5 consecutive points the
\* RSI at the last of them is 100, and if they strictly decrease it is 0:
\* at every position of the series calculate_rsi returns, and for the RSI of
\* a snapshot.
C24_RsiExtremes ==
    /\ RsiCalled =>
          \A i \in 1..N :
              /\ Monotone(i, ret.period + 5, 1) => ret.rsi[i] = Int2F(100)
              /\ Monotone(i, ret.period + 5, -1) => ret.rsi[i] = Int2F(0)
    /\ (Analyzed /\ N >= 20) =>
          /\ Monotone(N, rsi_period(ret.config) + 5, 1) =>
                ret.snapshot.rsi = Int2F(100)
          /\ Monotone(N, rsi_period(ret.config) + 5, -1) =>
                ret.snapshot.rsi = Int2F(0)

\* a call with period 2 or more on a series that rises and then strictly
\* falls over exactly its last period+5 points
C24_Witness ==
    /\ RsiCalled
    /\ ret.period >= 2
    /\ N > ret.period + 5
    /\ Monotone(N, ret.period + 5, -1)
    /\ ~Monotone(N, ret.period + 6, -1)
    /\ ret.rsi[N] = Int2F(0)

\* the smoothing factor of a span
Alpha(span) == Rat(2, span + 1)

\* the EMA of the closes at position i written out: the first close weighted
\* (1-a)^(i-1) and each later close j weighted a*(1-a)^(i-j)
EmaOfCloses(span, i) ==
    LET a == Alpha(span)
        b == FSub(Int2F(1), a)
    IN  FSum([j \in 1..i |->
                 FMul(IF j = 1 THEN FPow(b, i - 1) ELSE FMul(a, FPow(b, i - j)),
                      Close(price_data[j]))], i)

\* C25: calculate_macd builds each EMA by EMA[0] = x[0],
\* EMA[i] = a*x[i] + (1-a)*EMA[i-1] with a = 2/(span+1): the MACD line is the
\* difference of the two EMAs of the closes so defined, the signal line obeys
\* the recursion on the MACD line, all three series are defined at every
\* position and all three are 0 at the first position.
C25_EmaRecursion ==
    MacdCalled =>
        /\ \A i \in 1..N :
              /\ IsNum(ret.out.macd[i])
              /\ IsNum(ret.out.signal[i])
              /\ IsNum(ret.out.histogram[i])
              /\ ret.out.macd[i] =
                    FSub(EmaOfCloses(ret.fast, i), EmaOfCloses(ret.slow, i))
              /\ i > 1 =>
                    ret.out.signal[i] =
                        FAdd(FMul(Alpha(ret.signal), ret.out.macd[i]),
                             FMul(FSub(Int2F(1), Alpha(ret.signal)),
                                  ret.out.signal[i - 1]))
        /\ DOMAIN ret.out.macd = 1..N
        /\ DOMAIN ret.out.signal = 1..N
        /\ N >= 1 =>
              /\ ret.out.macd[1] = Int2F(0)
              /\ ret.out.signal[1] = Int2F(0)
              /\ ret.out.histogram[1] = Int2F(0)

\* a call with three different spans, none of them 1, on closes that move:
\* the MACD line and the signal line differ at the last position
C25_Witness ==
    /\ MacdCalled
    /\ N >= 3
    /\ ret.fast > 1
    /\ ret.slow > ret.fast
    /\ ret.signal > 1
    /\ price_data[N] # price_data[N - 1]
    /\ ret.out.signal[N] # ret.out.macd[N]
    /\ ret.out.signal[N] # Int2F(0)

\* C22: two calls of analyze() with the same ticker, the same input series
\* and the same configuration yield identical snapshots, field for field, the
\* timestamp included.
C22_Idempotent ==
    \A i, j \in 1..Len(calls) :
        (/\ calls[i].ticker = calls[j].ticker
         /\ calls[i].frame = calls[j].frame
         /\ calls[i].config = calls[j].config) =>
            calls[i].out.result = calls[j].out.result

\* a returned dict without its timestamp
WithoutTimestamp(snapshot) ==
    [f \in DOMAIN snapshot \ {"timestamp"} |-> snapshot[f]]

Advises(r, action, tenths) ==
    r.action = action /\ r.confidence = Rat(tenths, 10)

\* C26: analyze_cedear always returns a recommendation and never raises:
\* with no response (None, or an empty text) the default one (MANTENER, 0.3,
\* risk ALTO), with a response that is not JSON the technical one, otherwise
\* the one built from the parsed response.
C26_AlwaysRecommends ==
    \A i \in 1..Len(rec_log) :
        LET e == rec_log[i]
            silent == e.ai_response.none \/ e.ai_response.chars = 0
        IN  /\ ~e.outcome.raised
            /\ silent =>
                  /\ Advises(e.outcome.value, "MANTENER", 3)
                  /\ e.outcome.value.risk_level = JStr("ALTO")
            /\ (~silent /\ e.ai_response.json = InvalidJson) =>
                  e.outcome.value
                      = _generate_technical_recommendation(e.ticker, e.analysis)
            /\ (~silent /\ e.ai_response.json # InvalidJson) =>
                  /\ "ai_analysis" \in DOMAIN e.outcome.value
                  /\ e.outcome.value.action =
                        upper(get(e.ai_response.json, "recommendation",
                                  JStr("MANTENER")).v)

\* C29: the technical recommendation follows a fixed precedence: RSI defined
\* and below 30 (0 included) with trend bullish gives COMPRAR 0.7; RSI above
\* 70 with trend bearish gives VENDER 0.7; only when neither applies the
\* 7-day momentum decides (above 5 COMPRAR 0.6, below -5 VENDER 0.6), and
\* otherwise MANTENER 0.5.
C29_TechnicalPrecedence ==
    \A i \in 1..Len(rec_log) :
        LET e == rec_log[i]
            rsi == e.analysis.rsi
            trend == e.analysis.trend.trend
            m7 == e.analysis.momentum[7]
            oversold == IsNum(rsi) /\ FLt(rsi, Int2F(30)) /\ trend = "bullish"
            overbought == IsNum(rsi) /\ FGt(rsi, Int2F(70)) /\ trend = "bearish"
        IN  (/\ ~e.ai_response.none
             /\ e.ai_response.chars > 0
             /\ e.ai_response.json = InvalidJson) =>
                LET r == e.outcome.value
                IN  /\ oversold => Advises(r, "COMPRAR", 7)
                    /\ (~oversold /\ overbought) => Advises(r, "VENDER", 7)
                    /\ (~oversold /\ ~overbought) =>
                          IF FGt(m7, Int2F(5)) THEN Advises(r, "COMPRAR", 6)
                          ELSE IF FLt(m7, Int2F(-5)) THEN Advises(r, "VENDER", 6)
                          ELSE Advises(r, "MANTENER", 5)

\* how many times r occurs in a list
Occurrences(r, list) == Cardinality({i \in 1..Len(list) : list[i] = r})

\* C30: every recommendation the workflow produces has an action in
\* {COMPRAR, VENDER, MANTENER}, whatever the AI answers; the buy, sell and
\* hold counts of the final summary add up to the number of recommendations,
\* and every recommendation appears in exactly one section of the report.
C30_ActionsPartition ==
    /\ \A i \in 1..Len(recommendations) :
          recommendations[i].action \in {"COMPRAR", "VENDER", "MANTENER"}
    /\ report.built =>
          \A i \in 1..Len(recommendations) :
              Occurrences(recommendations[i], report.buy_recommendations)
                  + Occurrences(recommendations[i], report.sell_recommendations)
                  + Occurrences(recommendations[i], report.hold_recommendations)
                  = 1
    /\ summary.logged =>
          summary.buy_count + summary.sell_count + summary.hold_count
              = summary.total

\* the step of ensure_ollama_ready a function belongs to, and whether the
\* function is the repair of that step
StepOf(fn) ==
    CASE fn \in {"check_ollama_installed", "install_ollama"} -> 1
      [] fn \in {"check_ollama_running", "start_ollama_service"} -> 2
      [] fn \in {"check_model_available", "download_model"} -> 3
IsRepair(fn) ==
    fn \in {"install_ollama", "start_ollama_service", "download_model"}
RepairOf(i) ==
    /\ i < Len(setup.invoked)
    /\ IsRepair(setup.invoked[i + 1].fn)
    /\ StepOf(setup.invoked[i + 1].fn) = StepOf(setup.invoked[i].fn)

\* the service at url serves the model: it lists the name, or the name with
\* the tag a name without one stands for
HasModel(world, url, model) ==
    \/ model \in world.models[url]
    \/ (model \o <<":latest">>) \in world.models[url]

\* the steps come in the order installed, running, model, each a check
\* followed, if at all, by its repair
C27_StepsInOrder ==
    \A i, j \in 1..Len(setup.invoked) :
        i < j =>
            \/ StepOf(setup.invoked[i].fn) < StepOf(setup.invoked[j].fn)
            \/ /\ StepOf(setup.invoked[i].fn) = StepOf(setup.invoked[j].fn)
               /\ ~IsRepair(setup.invoked[i].fn)
               /\ IsRepair(setup.invoked[j].fn)
               /\ j = i + 1

\* True only if every step held or was repaired
C27_TrueOnlyIfRepaired ==
    (setup.pc = "returned" /\ setup.result) =>
        \A step \in 1..3 :
            \E i \in 1..Len(setup.invoked) :
                /\ StepOf(setup.invoked[i].fn) = step
                /\ ~IsRepair(setup.invoked[i].fn)
                /\ \/ setup.invoked[i].ok
                   \/ RepairOf(i) /\ setup.invoked[i + 1].ok

\* False at the first step that fails, nothing attempted after it
C27_FalseAtFirstFailure ==
    /\ \A i \in 1..Len(setup.invoked) :
          ~setup.invoked[i].ok =>
              \/ i = Len(setup.invoked)
              \/ ~IsRepair(setup.invoked[i].fn) /\ RepairOf(i)
    /\ setup.pc = "returned" =>
          (setup.result <=> setup.invoked[Len(setup.invoked)].ok)

\* a disabled repair is never invoked
C27_DisabledNeverInvoked ==
    \A i \in 1..Len(setup.invoked) :
        /\ setup.invoked[i].fn = "install_ollama" => setup.auto_install
        /\ setup.invoked[i].fn = "download_model" => setup.auto_download_model

\* C27: ensure_ollama_ready performs its steps in the fixed order installed,
\* running, model available, and returns True only if each step already held
\* or was repaired (install, start, download); it returns False at the first
\* step that fails without attempting a later one; with auto_install
\* (auto_download_model) disabled it never invokes install_ollama
\* (download_model); and whenever it returns True the service answering at
\* the configured base_url is running and has the model.
C27_EnsureOllamaReady ==
    setup.pc # "not_called" =>
        /\ C27_StepsInOrder
        /\ C27_TrueOnlyIfRepaired
        /\ C27_FalseAtFirstFailure
        /\ C27_DisabledNeverInvoked
        /\ (setup.pc = "returned" /\ setup.result) =>
              /\ ollama.running[setup.base_url]
              /\ HasModel(ollama, setup.base_url, setup.model)

\* the session holds an access token
HoldsToken(self) == self.access_token.t = "str" /\ ~falsy(self.access_token)

\* the stored expiry time has passed at the instant
Expired(self, instant) ==
    /\ self.token_expires_at # JNull
    /\ self.token_expires_at.v <= instant

\* the request carries the token the session holds as a Bearer header
SendsBearer(e) ==
    /\ HoldsToken(e.after)
    /\ "Authorization" \in DOMAIN e.headers
    /\ e.headers.Authorization = <<"Bearer", e.after.access_token.v>>

\* C28: before each data request _ensure_authenticated returns True without
\* calling login when there is no ApiSecret; with an ApiSecret it calls
\* login exactly when there is no access token or the stored expiry time has
\* passed, and otherwise returns True without logging in again; after a
\* login() that returned True the client holds an access token, which that
\* request and the later ones send as a Bearer Authorization header.
C28_EnsureAuthenticated ==
    \A i \in 1..Len(requests) :
        LET e == requests[i]
        IN  /\ falsy(e.before.api_secret) =>
                  e.ensured /\ ~e.login_called
            /\ ~falsy(e.before.api_secret) =>
                  /\ e.login_called <=>
                        (~HoldsToken(e.before) \/ Expired(e.before, e.at))
                  /\ ~e.login_called => (e.ensured /\ e.after = e.before)
            /\ (e.login_called /\ e.ensured) =>
                  /\ HoldsToken(e.after)
                  /\ \A j \in i..Len(requests) : SendsBearer(requests[j])

====
